---- MODULE Spec2Model ----
(***************************************************************************)
(* Model of videotest.py: SendBrowserApp (the frame pump, the join gate    *)
(* and leave()) together with main().                                      *)
(*                                                                         *)
(* Three execution contexts are modelled:                                  *)
(*   - the main thread: main() -> run() -> leave()                         *)
(*   - the worker thread started by __init__: send_frames()                *)
(*   - the thread on which the call client invokes on_joined()             *)
(*                                                                         *)
(* Line 314 of videotest.py (the write_frame call) is indented less than   *)
(* the body of the try statement it sits in, directly before the except    *)
(* clause.  The model reads it as the last statement of the try body,      *)
(* which is the only placement that keeps the line where it stands.        *)
(***************************************************************************)
EXTENDS Integers, Sequences, FiniteSets, TLC

(***************************************************************************)
(* Bounds of the model.                                                    *)
(***************************************************************************)
MaxIter == 3          \* loop iterations explored
MaxInterrupts == 1    \* KeyboardInterrupts delivered to the main thread
MaxSignals == 2       \* on_joined invocations when the client repeats the completion

(***************************************************************************)
(* Inputs.                                                                 *)
(***************************************************************************)
MsPerSecond == 1000   \* time is counted in milliseconds

\* (framerate, width, height) as given on the command line
Configs ==
    { [framerate |-> 10, width |-> 2, height |-> 2],
      [framerate |-> 5,  width |-> 3, height |-> 1] }

\* the error argument of the join completion: None or a message
Errors == {"None", "join-failed"}

\* how long one call of capture / normalize / write may take
Durations == {0, 75}

\* what the browser hands back: image size and colour layout of the PNG
NativeSizes == { <<2, 2>>, <<4, 4>> }
Modes == {"RGB", "RGBA", "L"}

Corrupt == [size |-> <<0, 0>>, mode |-> "none", valid |-> FALSE]

Screenshots ==
    {Corrupt} \cup
    { [size |-> s, mode |-> m, valid |-> TRUE] : s \in NativeSizes, m \in Modes }

VARIABLES
    cfg,          \* __framerate, __width, __height
    app_quit,     \* __app_quit
    app_error,    \* __app_error
    start_event,  \* the flag of __start_event
    mainPc,       \* position of the main thread
    cbPc,         \* position of the completion callback
    cbErr,        \* the error argument on_joined was invoked with
    workerPc,     \* position of the worker thread
    screenshot,   \* local of send_frames: the capture being processed
    image_bytes,  \* local of send_frames: the last serialized frame
    elapsed,      \* time the work of the last started iteration has taken
    captures,     \* number of get_screenshot_as_png calls so far
    log,          \* outcome of every finished iteration
    sink,         \* every write_frame call so far
    lastSleep,    \* argument of the time.sleep call that ended the iteration
    released,     \* release steps of leave() attempted so far
    joinCalls,    \* number of client.join calls
    interrupts,   \* number of KeyboardInterrupts delivered
    quitAt,       \* where the worker was when leave() set __app_quit
    quitMark,     \* captures, write_frame calls and event flag at that moment
    signals       \* number of on_joined invocations

vars == << cfg, app_quit, app_error, start_event, mainPc, cbPc, cbErr,
           workerPc, screenshot, image_bytes, elapsed, captures, log, sink,
           lastSleep, released, joinCalls, interrupts, quitAt, quitMark,
           signals >>

mainVars == << mainPc, app_quit, released, joinCalls, interrupts, quitAt,
              quitMark >>
cbVars == << cbPc, cbErr, app_error, start_event, signals >>
workerVars == << workerPc, screenshot, image_bytes, elapsed, captures, log,
                 sink, lastSleep >>

NoShot == [id |-> 0, size |-> <<0, 0>>, mode |-> "none", valid |-> FALSE]
NoBytes == [src |-> 0, len |-> 0]
NoSleep == -1
NoMark == [captures |-> -1, writes |-> -1, event |-> FALSE]

Init ==
    /\ cfg \in Configs
    /\ app_quit = FALSE
    /\ app_error = "None"
    /\ start_event = FALSE
    /\ mainPc = "run_join"
    /\ cbPc = "idle"
    /\ cbErr = "None"
    /\ workerPc = "start"
    /\ screenshot = NoShot
    /\ image_bytes = NoBytes
    /\ elapsed = 0
    /\ captures = 0
    /\ log = << >>
    /\ sink = << >>
    /\ lastSleep = NoSleep
    /\ released = {}
    /\ joinCalls = 0
    /\ interrupts = 0
    /\ quitAt = "unset"
    /\ quitMark = NoMark
    /\ signals = 0

(***************************************************************************)
(* Helpers: threading.Event, Thread.join, truthiness, the sleep argument.  *)
(***************************************************************************)

\* `if error:` in on_joined: None is falsy, a message is truthy
ErrorIgnored(e) == FALSE
ErrorTruthy(e) == e # "None"

\* `if self.__app_error:` in send_frames
AppErrorNeverSet(e) == FALSE
AppErrorSet(e) == e # "None"

\* Event.wait() returns once the flag is set
EventWaitSpurious(flag) == TRUE
EventWaitReturns(flag) == flag

\* Event.set() stores the flag: the value of the flag after the call
EventSetPulse(flag) == flag
EventSet(flag) == TRUE

\* Thread.join() returns once the target function has returned
ThreadJoinNoWait(wpc) == TRUE
ThreadJoinReturns(wpc) == wpc = "exited"

\* sleep_time = 1.0 / self.__framerate, in milliseconds
SleepTime(framerate) == MsPerSecond \div framerate

Max(a, b) == IF a >= b THEN a ELSE b

\* the argument of time.sleep at the end of an iteration
SleepRemaining(interval, worked) == Max(0, interval - worked)
SleepArg(interval, worked) == interval

\* `while not self.__app_quit:` : the loop body is entered
LoopContinuesAlways(quit) == TRUE
LoopContinues(quit) == ~quit

\* where send_frames goes after the error check: to the test of the while loop
LoopEntryBody == "capture"
LoopEntry == "loop"

\* where control goes when the try body raises: the except clause logs
\* and falls through to time.sleep
ExceptEscapes == "exited"
ExceptRetriesWrite == "write"
ExceptSkipsSleep == "loop"
ExceptTarget == "sleep"

(***************************************************************************)
(* The image pipeline of one iteration (PIL).                              *)
(***************************************************************************)

\* bytes per pixel of Image.tobytes() for a mode
Bands(mode) ==
    CASE mode = "RGB"  -> 3
      [] mode = "RGBA" -> 4
      [] mode = "L"    -> 1
      [] OTHER         -> 0

\* image.size != (self.__width, self.__height)
NeedsResize(size, w, h) == size # <<w, h>>

\* image.resize((w, h), LANCZOS)
Resize(img, w, h) == [img EXCEPT !.size = <<w, h>>]

\* image.mode != "RGB"
NeedsConvertAlphaOnly(mode) == mode = "RGBA"
NeedsConvert(mode) == mode # "RGB"

\* image.convert("RGB")
Convert(img) == [img EXCEPT !.mode = "RGB"]

\* len(image.tobytes())
ToBytesLen(img) == img.size[1] * img.size[2] * Bands(img.mode)

\* resize if needed, convert if needed, serialize: the length of image_bytes
Normalize(img, w, h) ==
    LET resized == IF NeedsResize(img.size, w, h) THEN Resize(img, w, h) ELSE img
        rgb == IF NeedsConvert(resized.mode) THEN Convert(resized) ELSE resized
    IN  ToBytesLen(rgb)

(***************************************************************************)
(* The completion callback: on_joined(data, error).                        *)
(***************************************************************************)

\* the call client invokes the completion of the pending join
OnJoinedInvoke ==
    /\ cbPc = "pending"
    /\ \E error \in Errors : cbErr' = error
    /\ cbPc' = "entered"
    /\ signals' = signals + 1
    /\ UNCHANGED << app_error, start_event >>
    /\ UNCHANGED << cfg, mainVars, workerVars >>

\* if error: self.__app_error = error
OnJoinedRecordError ==
    /\ cbPc = "entered"
    /\ app_error' = IF ErrorTruthy(cbErr) THEN cbErr ELSE app_error
    /\ cbPc' = "set"
    /\ UNCHANGED << cbErr, start_event, signals >>
    /\ UNCHANGED << cfg, mainVars, workerVars >>

\* self.__start_event.set()
OnJoinedSetEvent ==
    /\ cbPc = "set"
    /\ start_event' = EventSet(start_event)
    /\ cbPc' = "returned"
    /\ UNCHANGED << cbErr, app_error, signals >>
    /\ UNCHANGED << cfg, mainVars, workerVars >>

Callback == OnJoinedInvoke \/ OnJoinedRecordError \/ OnJoinedSetEvent

\* a client that invokes the completion again after on_joined has returned
OnJoinedRepeat ==
    /\ cbPc = "returned"
    /\ signals < MaxSignals
    /\ \E error \in Errors : cbErr' = error
    /\ cbPc' = "entered"
    /\ signals' = signals + 1
    /\ UNCHANGED << app_error, start_event >>
    /\ UNCHANGED << cfg, mainVars, workerVars >>

(***************************************************************************)
(* The main thread: main(), run(), leave().                                *)
(***************************************************************************)

\* run(): self.__client.join(..., completion=self.on_joined)
RunJoin ==
    /\ mainPc = "run_join"
    /\ joinCalls' = joinCalls + 1
    /\ cbPc' = "pending"
    /\ mainPc' = "run_wait"
    /\ UNCHANGED << app_quit, released, interrupts, quitAt, quitMark >>
    /\ UNCHANGED << cfg, cbErr, app_error, start_event, signals, workerVars >>

\* run(): self.__thread.join(); run returns and main's finally calls leave()
RunWait ==
    /\ mainPc = "run_wait"
    /\ ThreadJoinReturns(workerPc)
    /\ mainPc' = "leave_set"
    /\ UNCHANGED << app_quit, released, joinCalls, interrupts, quitAt, quitMark >>
    /\ UNCHANGED << cfg, cbVars, workerVars >>

\* Ctrl-C: inside run() it is caught by main and the finally clause calls
\* leave(); inside leave() nothing catches it
KeyboardInterrupt ==
    /\ interrupts < MaxInterrupts
    /\ mainPc \notin {"done", "raised"}
    /\ interrupts' = interrupts + 1
    /\ mainPc' = IF mainPc \in {"run_join", "run_wait"} THEN "leave_set" ELSE "raised"
    /\ UNCHANGED << app_quit, released, joinCalls, quitAt, quitMark >>
    /\ UNCHANGED << cfg, cbVars, workerVars >>

\* leave(): self.__app_quit = True
LeaveSetQuit ==
    /\ mainPc = "leave_set"
    /\ app_quit' = TRUE
    /\ quitAt' = workerPc
    /\ quitMark' = [captures |-> captures, writes |-> Len(sink),
                    event |-> start_event]
    /\ mainPc' = "leave_join"
    /\ UNCHANGED << released, joinCalls, interrupts >>
    /\ UNCHANGED << cfg, cbVars, workerVars >>

\* leave(): self.__thread.join()
LeaveJoin ==
    /\ mainPc = "leave_join"
    /\ ThreadJoinReturns(workerPc)
    /\ mainPc' = "leave_quit"
    /\ UNCHANGED << app_quit, released, joinCalls, interrupts, quitAt, quitMark >>
    /\ UNCHANGED << cfg, cbVars, workerVars >>

\* one release call of leave(): it returns, or it raises and the exception
\* leaves leave() and main()
ReleaseStep(pc, name, nextPc) ==
    /\ mainPc = pc
    /\ released' = released \cup {name}
    /\ \E raises \in BOOLEAN : mainPc' = IF raises THEN "raised" ELSE nextPc
    /\ UNCHANGED << app_quit, joinCalls, interrupts, quitAt, quitMark >>
    /\ UNCHANGED << cfg, cbVars, workerVars >>

\* leave(): if self.__driver: self.__driver.quit()
LeaveDriverQuit == ReleaseStep("leave_quit", "driver.quit", "leave_client")

\* leave(): self.__client.leave()
LeaveClientLeave == ReleaseStep("leave_client", "client.leave", "leave_release")

\* leave(): self.__client.release()
LeaveClientRelease == ReleaseStep("leave_release", "client.release", "done")

Main ==
    \/ RunJoin
    \/ RunWait
    \/ LeaveSetQuit
    \/ LeaveJoin
    \/ LeaveDriverQuit
    \/ LeaveClientLeave
    \/ LeaveClientRelease

(***************************************************************************)
(* The worker thread: send_frames().                                       *)
(***************************************************************************)

\* the record of one finished iteration
Outcome(cap, norm, write) == [cap |-> cap, norm |-> norm, write |-> write]

\* self.__start_event.wait() is called
SendFramesWait ==
    /\ workerPc = "start"
    /\ workerPc' = IF EventWaitReturns(start_event) THEN "check_error" ELSE "blocked"
    /\ UNCHANGED << screenshot, image_bytes, elapsed, captures, log, sink, lastSleep >>
    /\ UNCHANGED << cfg, mainVars, cbVars >>

\* the blocked wait() returns
SendFramesWake ==
    /\ workerPc = "blocked"
    /\ EventWaitReturns(start_event)
    /\ workerPc' = "check_error"
    /\ UNCHANGED << screenshot, image_bytes, elapsed, captures, log, sink, lastSleep >>
    /\ UNCHANGED << cfg, mainVars, cbVars >>

\* if self.__app_error: return
SendFramesCheckError ==
    /\ workerPc = "check_error"
    /\ workerPc' = IF AppErrorSet(app_error) THEN "exited" ELSE LoopEntry
    /\ UNCHANGED << screenshot, image_bytes, elapsed, captures, log, sink, lastSleep >>
    /\ UNCHANGED << cfg, mainVars, cbVars >>

\* while not self.__app_quit:
LoopTest ==
    /\ workerPc = "loop"
    /\ ~LoopContinues(app_quit) \/ captures < MaxIter
    /\ workerPc' = IF LoopContinues(app_quit) THEN "capture" ELSE "exited"
    /\ elapsed' = 0
    /\ lastSleep' = NoSleep
    /\ UNCHANGED << screenshot, image_bytes, captures, log, sink >>
    /\ UNCHANGED << cfg, mainVars, cbVars >>

\* screenshot = self.__driver.get_screenshot_as_png()
Capture ==
    /\ workerPc = "capture"
    /\ captures' = captures + 1
    /\ \E d \in Durations : elapsed' = elapsed + d
    /\ \E raises \in BOOLEAN :
         IF raises
         THEN /\ workerPc' = ExceptTarget
              /\ log' = Append(log, Outcome(FALSE, FALSE, "none"))
              /\ UNCHANGED screenshot
         ELSE /\ \E png \in Screenshots :
                   screenshot' = [id |-> captures + 1, size |-> png.size,
                                  mode |-> png.mode, valid |-> png.valid]
              /\ workerPc' = "normalize"
              /\ UNCHANGED log
    /\ UNCHANGED << image_bytes, sink, lastSleep >>
    /\ UNCHANGED << cfg, mainVars, cbVars >>

\* Image.open, resize, convert, tobytes
NormalizeStep ==
    /\ workerPc = "normalize"
    /\ \E d \in Durations : elapsed' = elapsed + d
    /\ IF screenshot.valid
       THEN /\ image_bytes' = [src |-> screenshot.id,
                               len |-> Normalize(screenshot, cfg.width, cfg.height)]
            /\ workerPc' = "write"
            /\ UNCHANGED log
       ELSE /\ workerPc' = ExceptTarget
            /\ log' = Append(log, Outcome(TRUE, FALSE, "none"))
            /\ UNCHANGED image_bytes
    /\ screenshot' = IF screenshot.valid THEN screenshot ELSE NoShot
    /\ UNCHANGED << captures, sink, lastSleep >>
    /\ UNCHANGED << cfg, mainVars, cbVars >>

\* self.__camera.write_frame(image_bytes)
WriteFrame ==
    /\ workerPc = "write"
    /\ image_bytes # NoBytes
    /\ \E d \in Durations : elapsed' = elapsed + d
    /\ \E raises \in BOOLEAN :
         /\ sink' = Append(sink, [src |-> image_bytes.src, iter |-> captures,
                                  len |-> image_bytes.len, ok |-> ~raises])
         /\ workerPc' = IF raises THEN ExceptTarget ELSE "sleep"
         /\ log' = Append(log, Outcome(TRUE, TRUE, IF raises THEN "failed" ELSE "ok"))
    /\ screenshot' = NoShot
    /\ UNCHANGED << image_bytes, captures, lastSleep >>
    /\ UNCHANGED << cfg, mainVars, cbVars >>

\* time.sleep(sleep_time)
Sleep ==
    /\ workerPc = "sleep"
    /\ lastSleep' = SleepArg(SleepTime(cfg.framerate), elapsed)
    /\ workerPc' = "loop"
    /\ UNCHANGED << screenshot, image_bytes, elapsed, captures, log, sink >>
    /\ UNCHANGED << cfg, mainVars, cbVars >>

Worker ==
    \/ SendFramesWait
    \/ SendFramesWake
    \/ SendFramesCheckError
    \/ LoopTest
    \/ Capture
    \/ NormalizeStep
    \/ WriteFrame
    \/ Sleep

Next == Main \/ KeyboardInterrupt \/ Callback \/ Worker

Spec == Init /\ [][Next]_vars

\* the same program with a client that may invoke the completion again
NextRepeat == Next \/ OnJoinedRepeat

RepeatSpec == Init /\ [][NextRepeat]_vars

\* the threads are scheduled fairly; Ctrl-C is not bound to happen
FairSpec == Spec /\ WF_vars(Main) /\ WF_vars(Callback) /\ WF_vars(Worker)

(***************************************************************************)
(* Properties.                                                             *)
(***************************************************************************)

PastGate == workerPc \notin {"start", "blocked"}
TargetLen == cfg.width * cfg.height * 3
Interval == SleepTime(cfg.framerate)
AfterThreadJoin ==
    \/ mainPc \in {"leave_quit", "leave_client", "leave_release", "done"}
    \/ mainPc = "raised" /\ released # {}

\* C1: while the session is pending (start_event unset) the worker has
\* requested no capture and made no write_frame call
C1_NoFramesWhilePending ==
    ~start_event => captures = 0 /\ sink = << >> /\ workerPc \in {"start", "blocked"}

\* the worker is blocked at the gate while on_joined is about to set the event
C1_Witness ==
    /\ ~start_event
    /\ workerPc = "blocked"
    /\ cbPc = "set"
    /\ cbErr = "None"

\* C2: once on_joined has been invoked with an error, the session has no
\* capture and no write_frame call, in every state that follows
C2_FailedJoinSendsNothing ==
    cbErr # "None" =>
        /\ captures = 0
        /\ sink = << >>
        /\ workerPc \in {"start", "blocked", "check_error", "exited"}

\* the join failed, the gate opened and the worker returned
C2_Witness ==
    /\ cbErr # "None"
    /\ start_event
    /\ workerPc = "exited"
    /\ captures = 0

\* C3: the worker does not pass start_event.wait() before on_joined has set
\* the event, a wait begun after the set returns at once, and once on_joined
\* has returned the worker gets past the wait
C3_GateNeitherLosesNorInvents ==
    /\ [](PastGate => cbPc = "returned")
    /\ [][(workerPc = "start" /\ start_event /\ workerPc' # workerPc)
            => workerPc' = "check_error"]_vars
    /\ (cbPc = "returned") ~> PastGate

\* the event was set before the worker began to wait
C3_Witness ==
    /\ cbPc = "returned"
    /\ start_event
    /\ workerPc = "start"

\* the iterations in which write_frame was called
WrittenIters == { sink[k].iter : k \in 1..Len(sink) }

\* C4: write_frame is called in exactly the iterations whose capture and
\* normalization succeeded, every started iteration is finished one by one,
\* and no failure makes the worker leave the loop
C4_FailureSkipsOneIteration ==
    /\ \A i \in 1..Len(log) : (i \in WrittenIters) <=> (log[i].cap /\ log[i].norm)
    /\ \A i \in 1..Len(log) : ~log[i].cap => log[i].write = "none"
    /\ Len(log) \in {captures - 1, captures}
    /\ workerPc \in {"sleep", "loop"} => Len(log) = captures
    /\ (workerPc = "exited" /\ captures > 0) => app_quit

\* the source failed on the 3rd call: writes in iterations 1 and 2 only, and
\* the loop is still running
C4_Witness ==
    /\ Len(log) = 3
    /\ log[1].write = "ok"
    /\ log[2].write = "ok"
    /\ ~log[3].cap
    /\ WrittenIters = {1, 2}
    /\ workerPc = "loop"
    /\ ~app_quit

\* C5: when leave() is past thread.join() the worker has exited, and it has
\* exited with every iteration it started finished
C5_LeaveWaitsForIteration ==
    /\ AfterThreadJoin => workerPc = "exited"
    /\ workerPc = "exited" => Len(log) = captures

\* leave() set the flag in the middle of an iteration and has returned
C5_Witness ==
    /\ quitAt \in {"capture", "normalize", "write"}
    /\ mainPc = "done"
    /\ captures > 0

\* C6 as stated: the argument of time.sleep is max(0, interval - elapsed)
C6_SleepIsRemainder ==
    lastSleep # NoSleep => lastSleep = Max(0, Interval - elapsed)

\* C6 amended: the argument of time.sleep is the full interval 1/framerate,
\* whatever the work of the iteration took
C6_SleepIsFullInterval ==
    lastSleep # NoSleep => lastSleep = Interval

\* interval 100 ms, 150 ms of work, and the worker slept 100 ms
C6_Witness ==
    /\ cfg.framerate = 10
    /\ elapsed = 150
    /\ lastSleep = 100

ReleaseSteps == {"driver.quit", "client.leave", "client.release"}

\* C7: once teardown has begun and no Ctrl-C arrives, leave() attempts every
\* release step and ends without an exception
C7_TeardownUnconditional ==
    (mainPc \in {"done", "raised"} /\ released # {} /\ interrupts = 0) =>
        /\ released = ReleaseSteps
        /\ mainPc = "done"

\* C8: write_frame calls carry the capture of their own iteration, in
\* strictly increasing capture order, so no capture is written twice
C8_CaptureOrderAtMostOnce ==
    /\ \A k \in 1..Len(sink) :
         /\ sink[k].src = sink[k].iter
         /\ sink[k].src \in 1..captures
    /\ \A j, k \in 1..Len(sink) : j < k => sink[j].src < sink[k].src

\* a write failed, the next capture failed, and the next write carried the
\* third capture
C8_Witness ==
    /\ Len(sink) = 2
    /\ ~sink[1].ok
    /\ sink[1].src = 1
    /\ sink[2].src = 3
    /\ sink[2].ok

\* C9: every buffer handed to write_frame has length width*height*3
C9_FrameLength ==
    /\ \A k \in 1..Len(sink) : sink[k].len = TargetLen
    /\ workerPc = "write" => image_bytes.len = TargetLen

\* the frame of a capture with an alpha channel and a size other than the
\* target is handed to write_frame
C9_Witness ==
    /\ workerPc = "write"
    /\ image_bytes.src = screenshot.id
    /\ screenshot.mode = "RGBA"
    /\ screenshot.size # <<cfg.width, cfg.height>>
    /\ image_bytes.len = TargetLen

\* C10: a failed join was the only client.join call, and without any Ctrl-C
\* it leads to the teardown in leave()
C10_FailedJoinTearsDown ==
    /\ [](cbErr # "None" => joinCalls = 1)
    /\ (cbErr # "None") ~> (released # {} \/ interrupts > 0)

\* the join failed and leave() ran to its end without any interrupt
C10_Witness ==
    /\ cbErr # "None"
    /\ interrupts = 0
    /\ joinCalls = 1
    /\ mainPc = "done"


\* C11: driver.quit() is reached only after the worker has returned, and
\* from then on no get_screenshot_as_png and no write_frame call is made
C11_HandlesNotShared ==
    /\ []((mainPc = "leave_quit" \/ "driver.quit" \in released)
            => workerPc = "exited")
    /\ [][("driver.quit" \in released')
            => (captures' = captures /\ sink' = sink /\ workerPc' = "exited")]_vars

\* driver.quit() ran after a session that captured and wrote frames
C11_Witness ==
    /\ "driver.quit" \in released
    /\ captures > 0
    /\ sink # << >>
    /\ workerPc = "exited"

\* C12: after leave() has set the flag the worker makes at most one further
\* capture request and at most one further write_frame call
C12_ShutdownWithinOneIteration ==
    quitMark # NoMark =>
        /\ captures - quitMark.captures \in {0, 1}
        /\ Len(sink) - quitMark.writes \in {0, 1}

\* the flag was set right after the loop test: one more capture, one more
\* write, then the worker exited
C12_Witness ==
    /\ quitMark # NoMark
    /\ quitAt = "capture"
    /\ captures = quitMark.captures + 1
    /\ Len(sink) = quitMark.writes + 1
    /\ workerPc = "exited"

Signalled == signals >= 2 \/ (signals = 1 /\ cbPc = "returned")

\* C15: once the first on_joined invocation has returned, app_error and
\* start_event never change again
C15_SecondSignalIsNoOp ==
    [][Signalled => (app_error' = app_error /\ start_event' = start_event)]_vars

\* C16: every iteration, written or skipped, ends in a sleep of the full
\* interval before the loop test, whatever its work took
C16_FixedDelayAfterWork ==
    /\ []((workerPc = "loop" /\ captures > 0) => lastSleep = Interval)
    /\ [][(workerPc' = "capture" /\ workerPc # "capture" /\ captures > 0)
            => lastSleep = Interval]_vars

\* a capture failed after 75 ms and the worker slept the full interval
C16_Witness ==
    /\ workerPc = "loop"
    /\ Len(log) > 0
    /\ ~log[Len(log)].cap
    /\ elapsed = 75
    /\ lastSleep = Interval

\* C17: no release step is attempted and leave() is not past thread.join()
\* before on_joined has set the event
C17_NoTeardownWhilePending ==
    ~start_event =>
        /\ released = {}
        /\ mainPc \notin {"leave_quit", "leave_client", "leave_release", "done"}

\* Ctrl-C made leave() wait in thread.join() while the join is still pending
C17_Witness ==
    /\ ~start_event
    /\ app_quit
    /\ mainPc = "leave_join"
    /\ workerPc = "blocked"
    /\ cbPc = "pending"

\* C18: when leave() set the flag before on_joined set the event, the worker
\* makes no capture and no write_frame call
C18_EarlyStopWins ==
    (quitMark # NoMark /\ ~quitMark.event) =>
        /\ captures = 0
        /\ sink = << >>
        /\ workerPc \in {"start", "blocked", "check_error", "loop", "exited"}

\* the flag was set first, the join then succeeded, and the worker returned
\* without a capture
C18_Witness ==
    /\ quitMark # NoMark
    /\ ~quitMark.event
    /\ cbPc = "returned"
    /\ cbErr = "None"
    /\ app_error = "None"
    /\ workerPc = "exited"
    /\ captures = 0

====
